---- MODULE Spec2Model ----
(***************************************************************************)
(* The upload form of src/App.jsx: the four pieces of React state of the   *)
(* App component, its two event handlers, and the suspended invocations of *)
(* the asynchronous handleSubmit with the HTTP requests they issued.       *)
(*                                                                         *)
(* One step of the model is one run of JavaScript to completion: an event  *)
(* handler up to its first await, or the continuation of a suspended       *)
(* handleSubmit after the promise it awaits has settled.  The state        *)
(* updates made in one such run are applied together.                      *)
(***************************************************************************)
EXTENDS Naturals, Sequences, FiniteSets

\* Bound of the model: the number of handleSubmit invocations in one run.
MaxSubmits == 3

----------------------------------------------------------------------------
\* JavaScript values, all written as strings so that they can be compared.

JSNull == "null"
JSUndefined == "undefined"

\* `!v` for the values the file state can hold.
Falsy(v) == v \in {JSNull, JSUndefined}

\* The files the user can pick.
Files == {"photo.png", "doc.pdf"}

\* e.target.files[0]: a file, or undefined when the picker is left empty.
FileInputs == Files \cup {JSUndefined}

MsgNoFile == "Please select a file."
MsgFailed == "Failed to process file."

ApiUrl == "https://lfyfn7f5x276jk3xodx6gm5i6i0iqumh.lambda-url.ap-south-1.on.aws/"

\* HTTP statuses the endpoint may answer with.
Statuses == {200, 204, 404, 500}

\* Response.ok: the status is in the range 200-299.
ResOk(status) == status >= 200 /\ status <= 299

\* Body texts the endpoint may send.
BodyObject == "{\"newName\":\"IMG_001.png\"}"
BodyArray == "[1]"
BodyNull == "null"
BodyHtml == "<html>Bad Gateway</html>"
BodyEmpty == ""
Bodies == {BodyObject, BodyArray, BodyNull, BodyHtml, BodyEmpty}

\* The body stream breaking before the end of the body.
BodyAborted == "<stream aborted>"
BodyOutcomes == Bodies \cup {BodyAborted}

\* JSON.parse on the body texts above: the value, or a SyntaxError.
JSONParse(text) ==
    CASE text = BodyObject -> [ok |-> TRUE, value |-> "object{newName: IMG_001.png}"]
      [] text = BodyArray  -> [ok |-> TRUE, value |-> "array[1]"]
      [] text = BodyNull   -> [ok |-> TRUE, value |-> JSNull]
      [] OTHER             -> [ok |-> FALSE, value |-> JSNull]

\* res.json(): reads the body to its end and parses it; rejects when the
\* stream breaks or the text is no JSON.
ResJson(b) ==
    IF b = BodyAborted THEN [ok |-> FALSE, value |-> JSNull] ELSE JSONParse(b)

----------------------------------------------------------------------------
VARIABLES
    file,       \* useState(null): the selected file
    response,   \* useState(null): the last result
    loading,    \* useState(false): the in-flight flag
    error,      \* useState(null): the last error message
    calls,      \* the invocations of handleSubmit, in order of invocation
    net,        \* the HTTP requests issued by fetch, in order of issue
    lastOp      \* the operation that produced this state, with its inputs

vars == <<file, response, loading, error, calls, net, lastOp>>
ctl == <<file, response, loading, error>>

\* The submission state the four fields stand for.
StateOf(l, r, e) ==
    CASE l /\ r = JSNull /\ e = JSNull     -> "Pending"
      [] ~l /\ r # JSNull /\ e = JSNull    -> "Succeeded"
      [] ~l /\ r = JSNull /\ e # JSNull    -> "Failed"
      [] ~l /\ r = JSNull /\ e = JSNull    -> "Idle"
      [] OTHER                             -> "Corrupt"

StateName == StateOf(loading, response, error)

\* The invocations of handleSubmit suspended at an await: their request has
\* been issued and has not run to completion.
Outstanding == {i \in DOMAIN calls : calls[i].pc \in {"fetch", "json"}}

Op(name, arg, status, call) ==
    [op |-> name, from |-> StateName, arg |-> arg, status |-> status, call |-> call]

Init ==
    /\ file = JSNull
    /\ response = JSNull
    /\ loading = FALSE
    /\ error = JSNull
    /\ calls = <<>>
    /\ net = <<>>
    /\ lastOp = [op |-> "Init", from |-> "Idle", arg |-> "", status |-> 0, call |-> 0]

----------------------------------------------------------------------------
\* handleFileChange without setError(null)
handleFileChange_KeepsError(f) ==
    /\ file' = f
    /\ response' = JSNull
    /\ lastOp' = Op("SelectFile", f, 0, 0)
    /\ UNCHANGED <<error, loading, calls, net>>

\* handleFileChange that also calls setLoading(false)
handleFileChange_ClearsLoading(f) ==
    /\ file' = f
    /\ response' = JSNull
    /\ error' = JSNull
    /\ loading' = FALSE
    /\ lastOp' = Op("SelectFile", f, 0, 0)
    /\ UNCHANGED <<calls, net>>

\* handleFileChange (lines 11-15)
handleFileChange(f) ==
    /\ file' = f
    /\ response' = JSNull
    /\ error' = JSNull
    /\ lastOp' = Op("SelectFile", f, 0, 0)
    /\ UNCHANGED <<loading, calls, net>>

\* A request whose form data is built from the field name 'upload' and sent by PUT
FetchRequest_WrongPart(f, call) ==
    [method |-> "PUT", url |-> ApiUrl,
     parts |-> <<[name |-> "upload", value |-> f]>>, call |-> call]

\* new FormData(); formData.append('file', file); fetch(apiUrl, {method: 'POST', body})
FetchRequest(f, call) ==
    [method |-> "POST", url |-> ApiUrl,
     parts |-> <<[name |-> "file", value |-> f]>>, call |-> call]

\* handleSubmit without setResponse(null) and setError(null)
handleSubmit_KeepsOutcome ==
    LET id == Len(calls) + 1 IN
    /\ lastOp' = Op("Submit", file, 0, id)
    /\ UNCHANGED <<file, response>>
    /\ IF Falsy(file)
       THEN /\ error' = MsgNoFile
            /\ loading' = FALSE
            /\ calls' = Append(calls, [pc |-> "done", f |-> file, cleared |-> 1,
                                       outcome |-> "error"])
            /\ UNCHANGED net
       ELSE /\ UNCHANGED error
            /\ loading' = TRUE
            /\ calls' = Append(calls, [pc |-> "fetch", f |-> file, cleared |-> 0,
                                       outcome |-> "none"])
            /\ net' = Append(net, FetchRequest(file, id))

\* handleSubmit without the return of line 25: the request is made without a file
handleSubmit_NoReturn ==
    LET id == Len(calls) + 1 IN
    /\ lastOp' = Op("Submit", file, 0, id)
    /\ response' = JSNull
    /\ UNCHANGED file
    /\ error' = IF Falsy(file) THEN MsgNoFile ELSE JSNull
    /\ loading' = ~Falsy(file)
    /\ calls' = Append(calls, [pc |-> "fetch", f |-> file,
                               cleared |-> IF Falsy(file) THEN 1 ELSE 0,
                               outcome |-> "none"])
    /\ net' = Append(net, FetchRequest(file, id))

\* handleSubmit without setLoading(true)
handleSubmit_NoSetLoading ==
    LET id == Len(calls) + 1 IN
    /\ lastOp' = Op("Submit", file, 0, id)
    /\ response' = JSNull
    /\ UNCHANGED file
    /\ IF Falsy(file)
       THEN /\ error' = MsgNoFile
            /\ loading' = FALSE
            /\ calls' = Append(calls, [pc |-> "done", f |-> file, cleared |-> 1,
                                       outcome |-> "error"])
            /\ UNCHANGED net
       ELSE /\ error' = JSNull
            /\ UNCHANGED loading
            /\ calls' = Append(calls, [pc |-> "fetch", f |-> file, cleared |-> 0,
                                       outcome |-> "none"])
            /\ net' = Append(net, FetchRequest(file, id))

\* handleSubmit without setError(null)
handleSubmit_KeepsError ==
    LET id == Len(calls) + 1 IN
    /\ lastOp' = Op("Submit", file, 0, id)
    /\ response' = JSNull
    /\ UNCHANGED file
    /\ IF Falsy(file)
       THEN /\ error' = MsgNoFile
            /\ loading' = FALSE
            /\ calls' = Append(calls, [pc |-> "done", f |-> file, cleared |-> 1,
                                       outcome |-> "error"])
            /\ UNCHANGED net
       ELSE /\ UNCHANGED error
            /\ loading' = TRUE
            /\ calls' = Append(calls, [pc |-> "fetch", f |-> file, cleared |-> 0,
                                       outcome |-> "none"])
            /\ net' = Append(net, FetchRequest(file, id))

\* handleSubmit up to its first await (lines 17-35)
handleSubmit ==
    LET id == Len(calls) + 1 IN
    /\ lastOp' = Op("Submit", file, 0, id)
    /\ response' = JSNull
    /\ UNCHANGED file
    /\ IF Falsy(file)
       THEN /\ error' = MsgNoFile
            /\ loading' = FALSE
            /\ calls' = Append(calls, [pc |-> "done", f |-> file, cleared |-> 1,
                                       outcome |-> "error"])
            /\ UNCHANGED net
       ELSE /\ error' = JSNull
            /\ loading' = TRUE
            /\ calls' = Append(calls, [pc |-> "fetch", f |-> file, cleared |-> 0,
                                       outcome |-> "none"])
            /\ net' = Append(net, FetchRequest(file, id))

\* A catch block that makes the request again instead of giving up
CatchFinally_Retry(i) ==
    /\ net' = Append(net, FetchRequest(calls[i].f, i))
    /\ calls' = [calls EXCEPT ![i] = [@ EXCEPT !.pc = "fetch"]]
    /\ UNCHANGED <<file, response, loading, error>>

\* The catch block without the finally block
CatchFinally_NoFinally(i) ==
    /\ error' = MsgFailed
    /\ calls' = [calls EXCEPT ![i] = [@ EXCEPT !.pc = "done",
                                               !.outcome = "error"]]
    /\ UNCHANGED <<file, response, loading, net>>

\* A catch block that reports the message of the missing file
CatchFinally_WrongMessage(i) ==
    /\ error' = MsgNoFile
    /\ loading' = FALSE
    /\ calls' = [calls EXCEPT ![i] = [@ EXCEPT !.pc = "done",
                                               !.cleared = @ + 1,
                                               !.outcome = "error"]]
    /\ UNCHANGED <<file, response, net>>

\* catch (err) { setError(...) } finally { setLoading(false) }  (lines 39-43)
CatchFinally(i) ==
    /\ error' = MsgFailed
    /\ loading' = FALSE
    /\ calls' = [calls EXCEPT ![i] = [@ EXCEPT !.pc = "done",
                                               !.cleared = @ + 1,
                                               !.outcome = "error"]]
    /\ UNCHANGED <<file, response, net>>

\* setResponse(data) without the finally block
ResponseFinally_NoFinally(i, data) ==
    /\ response' = data
    /\ calls' = [calls EXCEPT ![i] = [@ EXCEPT !.pc = "done",
                                               !.outcome = "response"]]
    /\ UNCHANGED <<file, error, loading, net>>

\* A success path that also empties the selection with setFile(null)
ResponseFinally_ClearsFile(i, data) ==
    /\ response' = data
    /\ loading' = FALSE
    /\ file' = JSNull
    /\ calls' = [calls EXCEPT ![i] = [@ EXCEPT !.pc = "done",
                                               !.cleared = @ + 1,
                                               !.outcome = "response"]]
    /\ UNCHANGED <<error, net>>

\* setResponse(data); finally { setLoading(false) }  (lines 38, 41-43)
ResponseFinally(i, data) ==
    /\ response' = data
    /\ loading' = FALSE
    /\ calls' = [calls EXCEPT ![i] = [@ EXCEPT !.pc = "done",
                                               !.cleared = @ + 1,
                                               !.outcome = "response"]]
    /\ UNCHANGED <<file, error, net>>

\* The continuation without line 36: the body is read whatever the status
FetchResolved_NoOkCheck(i, status) ==
    /\ i \in DOMAIN calls
    /\ calls[i].pc = "fetch"
    /\ lastOp' = Op("FetchResolved", "", status, i)
    /\ calls' = [calls EXCEPT ![i] = [@ EXCEPT !.pc = "json"]]
    /\ UNCHANGED <<file, response, loading, error, net>>

\* The promise of fetch resolves with a response of this status (lines 32-37).
FetchResolved(i, status) ==
    /\ i \in DOMAIN calls
    /\ calls[i].pc = "fetch"
    /\ lastOp' = Op("FetchResolved", "", status, i)
    /\ IF ResOk(status)
       THEN /\ calls' = [calls EXCEPT ![i] = [@ EXCEPT !.pc = "json"]]
            /\ UNCHANGED <<file, response, loading, error, net>>
       ELSE CatchFinally(i)

\* The promise of fetch rejects: the endpoint could not be reached (line 32).
FetchRejected(i) ==
    /\ i \in DOMAIN calls
    /\ calls[i].pc = "fetch"
    /\ lastOp' = Op("FetchRejected", "", 0, i)
    /\ CatchFinally(i)

\* The promise of res.json() settles (lines 37-43).
JsonSettled(i, b) ==
    /\ i \in DOMAIN calls
    /\ calls[i].pc = "json"
    /\ lastOp' = Op("JsonSettled", b, 0, i)
    /\ IF ResJson(b).ok
       THEN ResponseFinally(i, ResJson(b).value)
       ELSE CatchFinally(i)

----------------------------------------------------------------------------
\* <input type="file" onChange={handleFileChange} />  (line 54): never disabled
SelectFile == \E f \in FileInputs : handleFileChange(f)

\* A button that is never disabled
ButtonDisabled_Never == FALSE

\* disabled={loading} of the submit button (line 55)
ButtonDisabled == loading

\* <button type="submit" disabled={loading}> in <form onSubmit={handleSubmit}>
Submit ==
    /\ ~ButtonDisabled
    /\ Len(calls) < MaxSubmits
    /\ handleSubmit

\* handleSubmit called whatever the button's state
ForcedSubmit ==
    /\ Len(calls) < MaxSubmits
    /\ handleSubmit

ResponseArrives == \E i \in DOMAIN calls, s \in Statuses : FetchResolved(i, s)

TransportFails == \E i \in DOMAIN calls : FetchRejected(i)

BodyArrives == \E i \in DOMAIN calls, b \in BodyOutcomes : JsonSettled(i, b)

\* One await of call i settles.
Settle(i) ==
    \/ \E s \in Statuses : FetchResolved(i, s)
    \/ FetchRejected(i)
    \/ \E b \in BodyOutcomes : JsonSettled(i, b)

Next ==
    \/ SelectFile
    \/ Submit
    \/ ResponseArrives
    \/ TransportFails
    \/ BodyArrives

NextForced ==
    \/ SelectFile
    \/ ForcedSubmit
    \/ ResponseArrives
    \/ TransportFails
    \/ BodyArrives

\* The form as the user can drive it.
Spec == Init /\ [][Next]_vars

\* The handlers called in any order.
ForcedSpec == Init /\ [][NextForced]_vars

\* The form as the user can drive it, every awaited promise settling.
LiveSpec == Init /\ [][Next]_vars /\ \A i \in 1..(MaxSubmits + 1) : WF_vars(Settle(i))

----------------------------------------------------------------------------
\* C1: in every state the user can reach by selecting files, submitting with
\* the enabled button and letting requests complete, at most one of "loading
\* is true", "response is non-null", "error is non-null" holds, so the fields
\* stand for exactly one of Idle, Pending, Succeeded, Failed.
C1_MutuallyExclusive ==
    /\ ~(loading /\ response # JSNull)
    /\ ~(loading /\ error # JSNull)
    /\ ~(response # JSNull /\ error # JSNull)
    /\ StateName \in {"Idle", "Pending", "Succeeded", "Failed"}

\* A result is on display after an earlier submission has failed.
C1_Witness ==
    /\ StateName = "Succeeded"
    /\ Len(calls) >= 2
    /\ calls[1].outcome = "error"

\* C2: a step of handleSubmit taken while no file is selected ends with
\* error = "Please select a file.", response null and loading false, and
\* issues no request, whatever the state it is taken from (the Pending state
\* of a forced call included).
C2_NoFileSubmit ==
    [][(Len(calls') = Len(calls) + 1 /\ Falsy(file))
         => /\ error' = MsgNoFile
            /\ ~loading'
            /\ response' = JSNull
            /\ net' = net
            /\ calls'[Len(calls')].pc = "done"]_vars

\* handleSubmit has run without a file while a request was outstanding.
C2_Witness ==
    /\ lastOp.op = "Submit"
    /\ Falsy(lastOp.arg)
    /\ lastOp.from = "Pending"
    /\ StateName = "Failed"
    /\ Outstanding # {}

\* C3: the requests issued are as many as the calls of handleSubmit made with
\* a file selected; each such call has issued exactly one request and each
\* call without a file none, also after a request has failed.
C3_OneRequestPerValidSubmit ==
    /\ Len(net) = Cardinality({i \in DOMAIN calls : ~Falsy(calls[i].f)})
    /\ \A i \in DOMAIN calls :
          Cardinality({k \in DOMAIN net : net[k].call = i})
              = IF Falsy(calls[i].f) THEN 0 ELSE 1

\* Two requests were issued, one has failed, and one submit had no file.
C3_Witness ==
    /\ Len(net) = 2
    /\ \E i \in DOMAIN calls : Falsy(calls[i].f)
    /\ \E i \in DOMAIN calls :
          ~Falsy(calls[i].f) /\ calls[i].pc = "done" /\ calls[i].outcome = "error"

\* C4: after res.json() has resolved, for a response with a success status
\* and a body that parses as JSON, response is the parsed body, error is null
\* and loading is false.
C4_SuccessStoresBody ==
    (lastOp.op = "JsonSettled" /\ ResJson(lastOp.arg).ok)
        => /\ response = ResJson(lastOp.arg).value
           /\ error = JSNull
           /\ ~loading
           /\ calls[lastOp.call].outcome = "response"

\* The object body of a 2xx response is on display.
C4_Witness ==
    /\ lastOp.op = "JsonSettled"
    /\ lastOp.arg = BodyObject
    /\ lastOp.from = "Pending"
    /\ response = "object{newName: IMG_001.png}"

\* The completions that are failures: a status outside 200-299, a body that
\* cannot be read as JSON, a rejected fetch.
FailedCompletion ==
    \/ lastOp.op = "FetchResolved" /\ ~ResOk(lastOp.status)
    \/ lastOp.op = "JsonSettled" /\ ~ResJson(lastOp.arg).ok
    \/ lastOp.op = "FetchRejected"

\* C5: after a request has completed with a non-success status, with a body
\* that is not JSON or with a transport failure, the state is
\* Failed("Failed to process file."): response null, loading false; the same
\* state for the three causes.
C5_FailureCollapses ==
    FailedCompletion
        => /\ error = MsgFailed
           /\ response = JSNull
           /\ ~loading
           /\ StateName = "Failed"

\* A 2xx response whose body is HTML has ended in Failed.
C5_Witness ==
    /\ lastOp.op = "JsonSettled"
    /\ lastOp.arg = BodyHtml
    /\ lastOp.from = "Pending"
    /\ error = MsgFailed

\* C6: after a file has been selected in the state Succeeded or Failed, the
\* state is Idle, the selected file is the new one, and result and error are
\* null.
C6_SelectResetsOutcome ==
    (lastOp.op = "SelectFile" /\ lastOp.from \in {"Succeeded", "Failed"})
        => /\ StateName = "Idle"
           /\ file = lastOp.arg
           /\ response = JSNull
           /\ error = JSNull

\* A file has been selected while an error was on display.
C6_Witness ==
    /\ lastOp.op = "SelectFile"
    /\ lastOp.from = "Failed"
    /\ lastOp.arg \in Files
    /\ file = lastOp.arg

C8_PendingIffOutstanding ==
    /\ loading <=> (Cardinality(Outstanding) = 1)
    /\ Cardinality(Outstanding) <= 1
    /\ Cardinality(Outstanding) = Len(net) - Cardinality({i \in DOMAIN calls :
                                        ~Falsy(calls[i].f) /\ calls[i].pc = "done"})

\* The response headers have arrived and the body is being read: still Pending.
C8_Witness ==
    /\ loading
    /\ Len(calls) >= 2
    /\ \E i \in Outstanding : calls[i].pc = "json"

\* The steps that complete a request: an invocation of handleSubmit ends.
CompletionStep ==
    /\ Len(calls') = Len(calls)
    /\ \E i \in DOMAIN calls : calls[i].pc # "done" /\ calls'[i].pc = "done"

\* C9 as stated: while the state is Pending the only step that changes file,
\* response, loading or error is the completion of the outstanding request;
\* no file can be selected.
C9_OnlyCompletionWhilePending ==
    [][(loading /\ ctl' # ctl) => (CompletionStep /\ file' = file)]_vars

\* C10: with every awaited promise settling, every invocation of handleSubmit
\* ends, so loading never stays true; it ends on one terminal transition that
\* stores either the result or an error and clears loading, and loading is
\* cleared exactly once for it.
C10_EverySubmitTerminates ==
    /\ loading ~> ~loading
    /\ \A i \in 1..(MaxSubmits + 1) :
          (Len(calls) >= i) ~> (Len(calls) >= i /\ calls[i].pc = "done")
    /\ [](\A i \in DOMAIN calls :
            /\ calls[i].cleared = (IF calls[i].pc = "done" THEN 1 ELSE 0)
            /\ (calls[i].pc = "done") <=> (calls[i].outcome \in {"response", "error"}))
    /\ [][\A i \in DOMAIN calls :
            (calls[i].pc # "done" /\ calls'[i].pc = "done")
                => /\ loading /\ ~loading'
                   /\ \/ calls'[i].outcome = "response" /\ error' = JSNull
                         /\ response' = ResJson(lastOp'.arg).value
                      \/ calls'[i].outcome = "error" /\ response' = JSNull
                         /\ error' = MsgFailed]_vars
    /\ [][\A i \in DOMAIN calls : calls[i].pc = "done" => calls'[i] = calls[i]]_vars

\* The last submission allowed has ended after an earlier one had ended.
C10_Witness ==
    /\ Len(calls) = MaxSubmits
    /\ \A i \in DOMAIN calls : calls[i].pc = "done" /\ calls[i].cleared = 1
    /\ \E i \in DOMAIN calls : calls[i].outcome = "response"
    /\ \E i \in DOMAIN calls : calls[i].outcome = "error" /\ ~Falsy(calls[i].f)
    /\ ~loading

\* C11 as stated: a handleSubmit forced while a request is outstanding does
\* not corrupt the state: never two requests outstanding at once, loading
\* never false while a request is outstanding, result and error never both
\* set.
C11_ForcedSubmitHarmless ==
    /\ Cardinality(Outstanding) <= 1
    /\ (Outstanding # {}) => loading
    /\ ~(response # JSNull /\ error # JSNull)

\* C12: through the UI the submit button is disabled exactly while loading
\* is true, a submit can be made exactly when it is not, and so at most one
\* request is outstanding in every reachable state.
C12_NoConcurrentSubmissions ==
    /\ ButtonDisabled <=> loading
    /\ (Len(calls) < MaxSubmits) => ((ENABLED Submit) <=> ~loading)
    /\ Cardinality(Outstanding) <= 1
    /\ (lastOp.op = "Submit" /\ ~Falsy(lastOp.arg))
          => (lastOp.from # "Pending" /\ Outstanding = {lastOp.call})

\* A second submission is under way, alone, after the first has ended.
C12_Witness ==
    /\ lastOp.op = "Submit"
    /\ lastOp.call = 2
    /\ Outstanding = {2}
    /\ ButtonDisabled
    /\ ~ENABLED Submit
    /\ calls[1].pc = "done" /\ ~Falsy(calls[1].f)

\* C13: every step that issues a request issues one POST whose multipart
\* body has exactly one part, named file, holding the file selected at that
\* moment; a request is never changed afterwards, so a file selected later
\* never appears in it.
C13_RequestCarriesSelectedFile ==
    /\ [][(net' # net)
            => /\ Len(net') = Len(net) + 1
               /\ SubSeq(net', 1, Len(net)) = net
               /\ net'[Len(net')].method = "POST"
               /\ net'[Len(net')].url = ApiUrl
               /\ net'[Len(net')].parts = <<[name |-> "file", value |-> file]>>
               /\ file \in Files
               /\ lastOp'.op = "Submit"]_vars
    /\ [](\A k \in DOMAIN net :
            /\ Len(net[k].parts) = 1
            /\ net[k].parts[1].name = "file"
            /\ net[k].parts[1].value = calls[net[k].call].f)

\* A request is outstanding for one file while another file is selected.
C13_Witness ==
    /\ file \in Files
    /\ \E k \in DOMAIN net :
          /\ net[k].call \in Outstanding
          /\ net[k].parts[1].value \in Files
          /\ net[k].parts[1].value # file
    /\ lastOp.op = "SelectFile"

\* C14: the error is null or one of the two messages; it is the message of
\* the missing file only if the most recent call of handleSubmit was made
\* without a file (and issued no request), and the failure message only if a
\* request of a call made with a file has completed unsuccessfully.
C14_ErrorMessages ==
    /\ error \in {JSNull, MsgNoFile, MsgFailed}
    /\ (error = MsgNoFile)
          => /\ calls # <<>>
             /\ Falsy(calls[Len(calls)].f)
             /\ \A k \in DOMAIN net : net[k].call # Len(calls)
    /\ (error = MsgFailed)
          => \E i \in DOMAIN calls :
                /\ ~Falsy(calls[i].f)
                /\ calls[i].pc = "done"
                /\ calls[i].outcome = "error"
                /\ \E k \in DOMAIN net : net[k].call = i

\* The failure message is shown after an earlier submit without a file.
C14_Witness ==
    /\ error = MsgFailed
    /\ Len(calls) >= 2
    /\ Falsy(calls[1].f)
    /\ lastOp.op \in {"FetchResolved", "FetchRejected", "JsonSettled"}

\* C15 as stated: whenever a result or the failure message is on display
\* and a file is selected, what is displayed is the outcome of a request that
\* carried the file now selected.
C15_OutcomeOfSelectedFile ==
    ((response # JSNull \/ error = MsgFailed) /\ file \in Files)
        => /\ lastOp.op \in {"FetchResolved", "FetchRejected", "JsonSettled"}
           /\ \E k \in DOMAIN net :
                 /\ net[k].call = lastOp.call
                 /\ net[k].parts[1].value = file

\* C16: only handleFileChange changes the selected file: a step that changes
\* it is a file selection, and calls of handleSubmit and completions of
\* requests leave it as it is; after a terminal state with a file selected a
\* submit can be made at once, and it carries that same file.
C16_OnlySelectChangesFile ==
    /\ [][(file' # file)
            => (lastOp'.op = "SelectFile" /\ calls' = calls /\ net' = net)]_vars
    /\ [][(lastOp'.op # "SelectFile") => file' = file]_vars
    /\ []((StateName \in {"Succeeded", "Failed"} /\ Len(calls) < MaxSubmits)
            => ENABLED Submit)
    /\ []((lastOp.op = "Submit" /\ lastOp.from \in {"Succeeded", "Failed"})
            => (lastOp.arg = file /\ calls[lastOp.call].f = file))

\* The file of a submission that succeeded has been submitted again at once,
\* without a selection in between.
C16_Witness ==
    /\ lastOp.op = "Submit"
    /\ lastOp.from = "Succeeded"
    /\ lastOp.call = 2
    /\ calls[1].outcome = "response"
    /\ calls[1].f = file
    /\ calls[2].f = file
    /\ Len(net) = 2
    /\ net[1].parts = net[2].parts

\* What a step leaves in loading, response and error, from its inputs alone.
OutcomeOf(op) ==
    CASE op.op = "Submit" ->
           IF Falsy(op.arg) THEN <<FALSE, JSNull, MsgNoFile>>
                            ELSE <<TRUE, JSNull, JSNull>>
      [] op.op = "FetchRejected" -> <<FALSE, JSNull, MsgFailed>>
      [] op.op = "FetchResolved" ->
           IF op.status >= 200 /\ op.status <= 299
             THEN <<TRUE, JSNull, JSNull>>
             ELSE <<FALSE, JSNull, MsgFailed>>
      [] op.op = "JsonSettled" ->
           IF op.arg \in {BodyObject, BodyArray, BodyNull}
             THEN <<FALSE, JSONParse(op.arg).value, JSNull>>
             ELSE <<FALSE, JSNull, MsgFailed>>
      [] OTHER -> <<FALSE, JSNull, JSNull>>

\* C17: through the UI, what a submission leaves in loading, response and
\* error, on entering Pending and on its terminal transition, is determined
\* by whether a file was selected at the submit and by the outcome of its
\* request alone, whatever the state (Idle, Succeeded or Failed) the submit
\* was made from: no earlier result or error survives.
C17_OutcomeIndependentOfHistory ==
    (lastOp.op \in {"Submit", "FetchResolved", "FetchRejected", "JsonSettled"})
        => /\ <<loading, response, error>> = OutcomeOf(lastOp)
           /\ lastOp.op = "Submit" => lastOp.from \in {"Idle", "Succeeded", "Failed"}

\* A submission made from Failed has succeeded: no error is left.
C17_Witness ==
    /\ lastOp.op = "JsonSettled"
    /\ lastOp.call = 2
    /\ calls[1].outcome = "error"
    /\ calls[1].pc = "done"
    /\ calls[1].f = calls[2].f
    /\ response = "array[1]"
    /\ error = JSNull

====
